---- MODULE Spec2Model ----
(***************************************************************************)
(* Model of food_delivery_agent.py: the scatter-gather search of           *)
(* CAPManager.parallel_search_handlers, the verified cart addition of      *)
(* CAPManager.add_to_cart_consistent and FoodDeliveryAgent.run, which      *)
(* sequences them.                                                         *)
(*                                                                         *)
(* Adapter calls (initialize, search_items, add_item_to_cart,              *)
(* verify_cart_contains, remove_item_from_cart) are the environment: each  *)
(* call's outcome (returns, raises, never completes) is drawn when the     *)
(* call is made.                                                           *)
(***************************************************************************)
EXTENDS Integers, Sequences, FiniteSets, TLC

\* ------------------------------------------------------------------ bounds
MaxOffers == 2          \* offers one search returns
MaxPrice == 1           \* prices are 0..MaxPrice, or None
MaxAttemptsArg == 3     \* max_attempts arguments are -1..MaxAttemptsArg
MaxCalls == 2           \* add_to_cart_consistent calls in the coordinator's own specification
MaxItems == 2           \* names in the food_items a SearchRequest is given
MaxNameLen == 3         \* characters in one name
MaxDiscPrice == 4       \* prices of the ItemResult whose discount is calculated
MaxRating == 2          \* ratings and min_rating are 0..MaxRating, or None
MaxCardPrice == 2       \* card prices and price bounds are 0..MaxCardPrice, or None
MaxRetryArg == 3        \* max_attempts of retry_async is 0..MaxRetryArg

\* --------------------------------------------------------- program constants
NumHandlers == 2        \* handlers = [swiggy_handler, zomato_handler]
RunMaxAttempts == 3     \* add_to_cart_consistent(..., max_attempts=3) in run

None == "None"       \* None where the other values are strings
Nothing == <<>>      \* None of an Optional value; <<v>> is the value v
Handlers == 1..NumHandlers

AVAILABILITY_FIRST == "availability_first"
CONSISTENCY_FIRST == "consistency_first"
CAPMode == {AVAILABILITY_FIRST, CONSISTENCY_FIRST}

\* Platform.SWIGGY.value / Platform.ZOMATO.value: the platform an ItemResult carries
PlatformValue(h) == IF h = 1 THEN "Swiggy" ELSE IF h = 2 THEN "Zomato" ELSE "Other"

\* self.__class__.__name__: the platform a PlatformReport carries
ClassName(h) == IF h = 1 THEN "SwiggyHandler" ELSE IF h = 2 THEN "ZomatoHandler" ELSE "OtherHandler"

\* PlatformReport(platform=..., items_found=0, successful_additions=0) and the defaults
NewReport(h) ==
    [platform |-> ClassName(h), items_found |-> 0, successful_additions |-> 0,
     errors |-> <<>>, results |-> <<>>, available |-> TRUE, latency_ms |-> None]

\* Optional[float] prices: Nothing, or <<p>>
Prices == {<<p>> : p \in 0..MaxPrice} \cup {Nothing}

\* ItemResult as _process_card builds it: item_price = final_price = price, discount 0
ItemResult(h, price) ==
    [platform |-> PlatformValue(h), item_price |-> price, final_price |-> price,
     discount_percentage |-> <<0>>]

\* the result lists a search over the request's items can return
SearchResults(h) ==
    UNION {[1..n -> {ItemResult(h, p) : p \in Prices}] : n \in 0..MaxOffers}

\* exceptions an adapter call can raise: asyncio.TimeoutError, or any other Exception
AdapterExceptions ==
    {[type |-> "TimeoutError", msg |-> "adapter timed out"],
     [type |-> "Exception", msg |-> "adapter failed"]}

\* the asyncio.TimeoutError asyncio.wait_for raises: its str() is empty
WaitForTimeout == [type |-> "TimeoutError", msg |-> ""]

VARIABLES
    phase,          \* position of the running call: see the actions
    hpc,            \* hpc[h]: position of run_handler(h)
    pending,        \* pending[h]: outcome the adapter call in flight will have
    report,         \* report[h]: handler.report
    ret,            \* ret[h]: the results run_handler(h) returned
    ended,          \* ended[h]: how run_handler(h) ended and on what exception (history)
    finished,       \* the handlers in the order their run_handler tasks ended (history,
                    \* kept until the best deal has been looked up for the commit)
    calls,          \* calls[h]: how often run_handler(h) called initialize and search_items (history)
    all_results,    \* all_results of parallel_search_handlers / run
    reports,        \* the handlers, in the order their reports were returned
    best_deal,      \* run's best_deal
    cpc,            \* position of add_to_cart_consistent
    mode,           \* self.mode of the CAPManager that commits
    max_attempts,   \* argument of add_to_cart_consistent
    caps,           \* which of the three cart operations the handler has
    target,         \* the handler add_to_cart_consistent is called with
    attempt,        \* local of add_to_cart_consistent
    last_exc,       \* local of add_to_cart_consistent
    idempotency_token, \* local of add_to_cart_consistent
    result,         \* what add_to_cart_consistent returned
    trace,          \* adapter calls and sleeps of the current commit call (history)
    uuids,          \* number of uuid4 values drawn so far
    callTokens,     \* idempotency tokens of the commit calls made so far (history)
    run_report,     \* the RunReport run returned
    exit_status,    \* the status main exits with
    raw_items,      \* the food_items a SearchRequest is constructed with
    request,        \* the SearchRequest, once constructed: its food_items
    item,           \* an ItemResult calculate_discount is called on
    card,           \* what _process_card reads off a card: rating and price
    limits,         \* self.request of the handler: min_rating, price_min, price_max
    card_result,    \* what _process_card returned
    rpc,            \* position of retry_async's wrapper
    retry_max,      \* max_attempts of retry_async
    retry_attempt,  \* the wrapper's loop variable attempt
    last_exception, \* the wrapper's last_exception
    retry_out,      \* how the wrapper ended: a returned value or a raised exception
    retry_trace     \* the calls of func and the sleeps of the wrapper (history)

vars == <<phase, hpc, pending, report, ret, ended, finished, calls, all_results, reports, best_deal,
          cpc, mode, max_attempts, caps, target, attempt, last_exc,
          idempotency_token, result, trace, uuids, callTokens, run_report,
          exit_status, raw_items, request, item, card, limits, card_result,
          rpc, retry_max, retry_attempt, last_exception, retry_out, retry_trace>>

mainVars == <<exit_status, raw_items, request, item>>
cardVars == <<card, limits, card_result>>
retryVars == <<rpc, retry_max, retry_attempt, last_exception, retry_out, retry_trace>>
searchVars == <<hpc, pending, report, ret, ended, finished, calls>>
gatherVars == <<all_results, reports>>
commitVars == <<cpc, mode, max_attempts, caps, target, attempt, last_exc,
                idempotency_token, result, trace, uuids, callTokens>>

\* ------------------------------------------------------ parallel_search_handlers

\* except asyncio.TimeoutError comes first; except Exception takes the rest
IsTimeoutError(e) == e.type = "TimeoutError"

\* the except branches append a fixed text in place of the exception's message
ErrorEntryFixedText(e) == IF IsTimeoutError(e) THEN "Timeout" ELSE "search error"

\* the error entry each except branch appends
ErrorEntry(e) == IF IsTimeoutError(e) THEN "Timeout: " \o e.msg ELSE e.msg

\* the except branch forgets to mark the source unavailable
FailedReportStillAvailable(r, e) ==
    [r EXCEPT !.errors = Append(@, ErrorEntry(e)), !.latency_ms = "measured"]

\* the handler.report an except branch of run_handler leaves
FailedReport(r, e) ==
    [r EXCEPT !.available = FALSE,
              !.errors = Append(@, ErrorEntry(e)),
              !.latency_ms = "measured"]

\* the handler.report the try branch of run_handler leaves
AvailableReport(r) ==
    [r EXCEPT !.available = TRUE, !.latency_ms = "measured"]

\* search_items records the count but not the list on the report
SearchedReportCountOnly(r, res) ==
    [r EXCEPT !.items_found = Len(res)]

\* _process_card has returned k offers: self.report.successful_additions += 1 for each
Extracted(r, k) == [r EXCEPT !.successful_additions = @ + k]

\* search_items has processed its cards and, in its last lines, gives the report the
\* results it returns
SearchedReport(r, res) ==
    [Extracted(r, Len(res)) EXCEPT !.items_found = Len(res), !.results = res]

\* run_handler is entered and awaits handler.initialize()
InitializeCall(h) ==
    /\ phase = "search"
    /\ hpc[h] = "start"
    /\ \E o \in {"return", "raise", "hang"} :
          pending' = [pending EXCEPT ![h] = o]
    /\ hpc' = [hpc EXCEPT ![h] = "initialize"]
    /\ calls' = [calls EXCEPT ![h].initialize = @ + 1]
    /\ UNCHANGED <<phase, report, ret, ended, finished, gatherVars, best_deal, commitVars, run_report, mainVars, cardVars, retryVars>>

\* initialize() returned: asyncio.wait_for(handler.search_items(), timeout) is awaited
InitializeReturn(h) ==
    /\ phase = "search"
    /\ hpc[h] = "initialize"
    /\ pending[h] = "return"
    /\ \E o \in {"return", "raise", "hang"} :
          pending' = [pending EXCEPT ![h] = o]
    /\ hpc' = [hpc EXCEPT ![h] = "search"]
    /\ calls' = [calls EXCEPT ![h].search = @ + 1]
    /\ UNCHANGED <<phase, report, ret, ended, finished, gatherVars, best_deal, commitVars, run_report, mainVars, cardVars, retryVars>>

\* the except branches return an offer the handler had found before it failed
HandlerFailsWithOffer(h, e, how) ==
    /\ report' = [report EXCEPT ![h] = FailedReport(@, e)]
    /\ ret' = [ret EXCEPT ![h] = <<ItemResult(h, <<0>>)>>]
    /\ ended' = [ended EXCEPT ![h] = [how |-> how, exc |-> <<e>>]]
    /\ finished' = Append(finished, h)
    /\ hpc' = [hpc EXCEPT ![h] = "done"]
    /\ pending' = [pending EXCEPT ![h] = None]

\* run_handler's two except branches: mark unavailable, append, return []
HandlerFails(h, e, how) ==
    /\ report' = [report EXCEPT ![h] = FailedReport(@, e)]
    /\ ret' = [ret EXCEPT ![h] = <<>>]
    /\ ended' = [ended EXCEPT ![h] = [how |-> how, exc |-> <<e>>]]
    /\ finished' = Append(finished, h)
    /\ hpc' = [hpc EXCEPT ![h] = "done"]
    /\ pending' = [pending EXCEPT ![h] = None]

\* the orchestrator starts run_handler over when initialize() raised
InitializeRaiseRetried(h) ==
    /\ phase = "search"
    /\ hpc[h] = "initialize"
    /\ pending[h] = "raise"
    /\ hpc' = [hpc EXCEPT ![h] = "start"]
    /\ pending' = [pending EXCEPT ![h] = None]
    /\ UNCHANGED <<phase, report, ret, ended, finished, calls, gatherVars, best_deal, commitVars,
                   run_report, mainVars, cardVars, retryVars>>

\* initialize() raised
InitializeRaise(h) ==
    /\ phase = "search"
    /\ hpc[h] = "initialize"
    /\ pending[h] = "raise"
    /\ \E e \in AdapterExceptions : HandlerFails(h, e, "initialize raised")
    /\ UNCHANGED <<phase, calls, gatherVars, best_deal, commitVars, run_report, mainVars, cardVars, retryVars>>

\* search_items() returned within the timeout
SearchReturn(h) ==
    /\ phase = "search"
    /\ hpc[h] = "search"
    /\ pending[h] = "return"
    /\ \E res \in SearchResults(h) :
          /\ report' = [report EXCEPT ![h] = AvailableReport(SearchedReport(@, res))]
          /\ ret' = [ret EXCEPT ![h] = res]
          /\ ended' = [ended EXCEPT ![h] = [how |-> "search returned", exc |-> Nothing]]
    /\ finished' = Append(finished, h)
    /\ hpc' = [hpc EXCEPT ![h] = "done"]
    /\ pending' = [pending EXCEPT ![h] = None]
    /\ UNCHANGED <<phase, calls, gatherVars, best_deal, commitVars, run_report, mainVars, cardVars, retryVars>>

\* search_items() raised within the timeout
SearchRaise(h) ==
    /\ phase = "search"
    /\ hpc[h] = "search"
    /\ pending[h] = "raise"
    /\ \E e \in AdapterExceptions : HandlerFails(h, e, "search raised")
    /\ UNCHANGED <<phase, calls, gatherVars, best_deal, commitVars, run_report, mainVars, cardVars, retryVars>>

\* the timeout of wait_for ran out before search_items() completed, after it had
\* processed some of its cards
SearchTimeout(h) ==
    /\ phase = "search"
    /\ hpc[h] = "search"
    /\ \E k \in 0..MaxOffers :
          report' = [report EXCEPT ![h] = FailedReport(Extracted(@, k), WaitForTimeout)]
    /\ ret' = [ret EXCEPT ![h] = <<>>]
    /\ ended' = [ended EXCEPT ![h] = [how |-> "search timed out", exc |-> <<WaitForTimeout>>]]
    /\ finished' = Append(finished, h)
    /\ hpc' = [hpc EXCEPT ![h] = "done"]
    /\ pending' = [pending EXCEPT ![h] = None]
    /\ UNCHANGED <<phase, calls, gatherVars, best_deal, commitVars, run_report, mainVars, cardVars, retryVars>>

RECURSIVE Concat(_, _)
\* all_results.extend(res) for the first n tasks, in task order
Concat(f, n) == IF n = 0 THEN <<>> ELSE Concat(f, n - 1) \o f[n]

\* the gather returns as soon as one task has returned
GatherReadyAny == \E h \in Handlers : hpc[h] = "done"

\* asyncio.gather returns once every task has returned
GatherReady == \A h \in Handlers : hpc[h] = "done"

\* the loop keeps the reports of the handlers that are available only
GatherAvailableOnly ==
    /\ phase = "search"
    /\ GatherReady
    /\ all_results' = Concat(ret, NumHandlers)
    /\ reports' = SelectSeq([i \in Handlers |-> i], LAMBDA h : report[h].available)
    /\ phase' = "gathered"
    /\ UNCHANGED <<searchVars, best_deal, commitVars, run_report, mainVars, cardVars, retryVars>>

\* the results are taken in the order the tasks ended
GatherAsCompleted ==
    /\ phase = "search"
    /\ GatherReady
    /\ all_results' = Concat([i \in Handlers |-> ret[finished[i]]], NumHandlers)
    /\ reports' = [i \in Handlers |-> i]
    /\ phase' = "gathered"
    /\ UNCHANGED <<searchVars, best_deal, commitVars, run_report, mainVars, cardVars, retryVars>>

\* results = await asyncio.gather(*tasks); the loop that fills all_results and reports
Gather ==
    /\ phase = "search"
    /\ GatherReady
    /\ all_results' = Concat(ret, NumHandlers)
    /\ reports' = [i \in Handlers |-> i]
    /\ phase' = "gathered"
    /\ UNCHANGED <<searchVars, best_deal, commitVars, run_report, mainVars, cardVars, retryVars>>


\* SwiggyHandler(self.page, ...) and ZomatoHandler(self.page, ...): one page for all
PageOf(h) == "self.page"

\* run_handler(h) is suspended in handler.initialize() or handler.search_items(),
\* which drive the handler's page
SessionBusy(h) == hpc[h] \in {"initialize", "search"}

\* ------------------------------------------------------ add_to_cart_consistent

\* str(uuid.uuid4()): a value no earlier draw returned
Uuid4 == uuids + 1

\* exceptions the coordinator itself raises
NotImplementedError == [type |-> "NotImplementedError", msg |-> "does not implement add_item_to_cart"]
VerificationFailed == [type |-> "RuntimeError", msg |-> "Verification failed after add"]

\* what a cart operation of the handler raises
CartExceptions == {[type |-> "Exception", msg |-> "cart operation failed"]}

\* the handler's three optional cart operations: getattr(...) is callable or not
Capabilities == [add : BOOLEAN, verify : BOOLEAN, remove : BOOLEAN]

\* one adapter call or sleep of the coordinator, as the history records it
Entry(op, arg, out) == [op |-> op, attempt |-> attempt, arg |-> arg, out |-> out]

\* the locals before the loop: one token for the whole call, attempt = 0, last_exc = None
EnterCommit(h, m, n, c) ==
    /\ cpc \in {"idle", "done"}
    /\ target' = h
    /\ mode' = m
    /\ max_attempts' = n
    /\ caps' = c
    /\ idempotency_token' = <<Uuid4>>
    /\ uuids' = uuids + 1
    /\ callTokens' = Append(callTokens, <<Uuid4>>)
    /\ attempt' = 0
    /\ last_exc' = Nothing
    /\ result' = Nothing
    /\ trace' = <<>>
    /\ cpc' = "while"

\* the loop test off by one: one attempt too many
LoopGuardInclusive == attempt <= max_attempts

\* while attempt < max_attempts
LoopGuard == attempt < max_attempts

\* the loop test: the next attempt begins, or the loop ends and False is returned
WhileTest ==
    /\ phase = "commit"
    /\ cpc = "while"
    /\ IF LoopGuard
          THEN /\ attempt' = attempt + 1
               /\ cpc' = "add"
               /\ result' = result
          ELSE /\ attempt' = attempt
               /\ cpc' = "done"
               /\ result' = <<FALSE>>
    /\ UNCHANGED <<phase, searchVars, gatherVars, best_deal, mode, max_attempts, caps,
                   target, last_exc, idempotency_token, trace, uuids, callTokens,
                   run_report, mainVars, cardVars, retryVars>>

\* a token drawn anew for every attempt
AppliedTokenPerAttempt == <<idempotency_token[1] + attempt - 1>>

\* the token add_func is called with
AppliedToken == idempotency_token

\* the exception leaves add_to_cart_consistent
ExceptPropagates(e) ==
    /\ last_exc' = <<e>>
    /\ cpc' = "raised"

\* except Exception as e: last_exc = e, then the backoff sleep
Except(e) ==
    /\ last_exc' = <<e>>
    /\ cpc' = "sleep"

\* await add_func(item, idempotency_token), or NotImplementedError when there is none
AddItemToCart ==
    /\ phase = "commit"
    /\ cpc = "add"
    /\ IF ~caps.add
          THEN /\ Except(NotImplementedError)
               /\ trace' = trace
          ELSE \E o \in {"return", "raise"} :
                  /\ trace' = Append(trace, Entry("add_item_to_cart", AppliedToken, o))
                  /\ IF o = "return"
                        THEN /\ cpc' = "verify"
                             /\ last_exc' = last_exc
                        ELSE \E e \in CartExceptions : Except(e)
    /\ UNCHANGED <<phase, searchVars, gatherVars, best_deal, mode, max_attempts, caps,
                   target, attempt, idempotency_token, result, uuids, callTokens,
                   run_report, mainVars, cardVars, retryVars>>

\* the handler's own verification may raise; _fallback_verify catches everything
VerifyOp == IF caps.verify THEN "verify_cart_contains" ELSE "_fallback_verify"
VerifyOutcomes == IF caps.verify THEN {"True", "False", "raise"} ELSE {"True", "False"}

\* the result of the verification is not looked at
VerifiedUnchecked(o) == TRUE

\* if verified:
Verified(o) == o = "True"

\* verified = await verify_func(item) / self._fallback_verify(handler, item); if verified
VerifyCart ==
    /\ phase = "commit"
    /\ cpc = "verify"
    /\ \E o \in VerifyOutcomes :
          /\ trace' = Append(trace, Entry(VerifyOp, Nothing, o))
          /\ CASE o = "raise" ->
                    /\ \E e \in CartExceptions : Except(e)
                    /\ UNCHANGED <<report, result>>
               [] o # "raise" /\ Verified(o) ->
                    /\ report' = [report EXCEPT
                                     ![target].successful_additions = @ + 1]
                    /\ result' = <<TRUE>>
                    /\ cpc' = "done"
                    /\ last_exc' = last_exc
               [] OTHER ->
                    /\ cpc' = "rollback"
                    /\ UNCHANGED <<report, result, last_exc>>
    /\ UNCHANGED <<phase, hpc, pending, ret, ended, finished, calls, gatherVars, best_deal, mode,
                   max_attempts, caps, target, attempt, idempotency_token, uuids,
                   callTokens, run_report, mainVars, cardVars, retryVars>>

\* the handler's own removal may raise; _fallback_remove catches everything
RemoveOp == IF caps.remove THEN "remove_item_from_cart" ELSE "_fallback_remove"
RemoveOutcomes == IF caps.remove THEN {"return", "raise"} ELSE {"return"}

\* the mode test inverted
RetriesAfterRollbackInverted == mode = AVAILABILITY_FIRST

\* if self.mode == CAPMode.CONSISTENCY_FIRST: sleep and continue; else: break
RetriesAfterRollback == mode = CONSISTENCY_FIRST

\* no remove call is made after a failed verification
RollbackSkipped ==
    /\ phase = "commit"
    /\ cpc = "rollback"
    /\ trace' = trace
    /\ last_exc' = <<VerificationFailed>>
    /\ IF RetriesAfterRollback
          THEN /\ cpc' = "sleep"
               /\ result' = result
          ELSE /\ cpc' = "done"
               /\ result' = <<FALSE>>
    /\ UNCHANGED <<phase, searchVars, gatherVars, best_deal, mode, max_attempts, caps,
                   target, attempt, idempotency_token, uuids, callTokens, run_report,
                   mainVars, cardVars, retryVars>>

\* the rollback after a failed verification, then the retry or the break
Rollback ==
    /\ phase = "commit"
    /\ cpc = "rollback"
    /\ \E o \in RemoveOutcomes :
          /\ trace' = Append(trace, Entry(RemoveOp, Nothing, o))
          /\ IF o = "return"
                THEN /\ last_exc' = <<VerificationFailed>>
                     /\ IF RetriesAfterRollback
                           THEN /\ cpc' = "sleep"
                                /\ result' = result
                           ELSE /\ cpc' = "done"
                                /\ result' = <<FALSE>>
                ELSE /\ \E e \in CartExceptions : Except(e)
                     /\ result' = result
    /\ UNCHANGED <<phase, searchVars, gatherVars, best_deal, mode, max_attempts, caps,
                   target, attempt, idempotency_token, uuids, callTokens, run_report, mainVars, cardVars, retryVars>>

\* the failure reasons the call holds when it returns: last_exc alone, each failure
\* overwriting the one before
RecordedReasons == IF last_exc = Nothing THEN 0 ELSE 1

\* wait = backoff ** (attempt - 1): the exponent of the sleep
BackoffExponent == attempt - 1

\* await asyncio.sleep(wait); continue
Backoff ==
    /\ phase = "commit"
    /\ cpc = "sleep"
    /\ trace' = Append(trace, Entry("sleep", <<BackoffExponent>>, ""))
    /\ cpc' = "while"
    /\ UNCHANGED <<phase, searchVars, gatherVars, best_deal, mode, max_attempts, caps,
                   target, attempt, last_exc, idempotency_token, result, uuids,
                   callTokens, run_report, mainVars, cardVars, retryVars>>

\* a caller calls add_to_cart_consistent(handler, item, max_attempts) on a CAPManager
CommitCall ==
    /\ phase = "commit"
    /\ Len(callTokens) < MaxCalls
    /\ \E h \in Handlers, m \in CAPMode, n \in -1..MaxAttemptsArg, c \in Capabilities :
          EnterCommit(h, m, n, c)
    /\ UNCHANGED <<phase, searchVars, gatherVars, best_deal, run_report, mainVars, cardVars, retryVars>>

CommitStep == WhileTest \/ AddItemToCart \/ VerifyCart \/ Rollback \/ Backoff

\* ------------------------------------------------------------ FoodDeliveryAgent.run

\* truthiness of an Optional[float]: None and 0 are false
Truthy(p) == p # Nothing /\ p[1] # 0

\* round(((item_price - final_price) / item_price) * 100, 2), in hundredths of a percent
\* (rounds half up where Python rounds the float half to even)
DiscountOf(ip, fp) == ((ip - fp) * 20000 + ip) \div (2 * ip)

\* ItemResult.calculate_discount
calculate_discount(o) ==
    IF Truthy(o.item_price) /\ Truthy(o.final_price) /\ o.item_price[1] > 0
       THEN [o EXCEPT !.discount_percentage =
                          <<DiscountOf(o.item_price[1], o.final_price[1])>>]
       ELSE o

\* for result in all_results: result.calculate_discount()
Discounted(rs) == [i \in DOMAIN rs |-> calculate_discount(rs[i])]

\* the filter tests the price's truth value: a final price of 0 counts as unknown
HasFinalPriceTruthy(r) == Truthy(r.final_price)

\* valid_results = [r for r in all_results if r.final_price is not None]
HasFinalPrice(r) == r.final_price # Nothing
ValidResults(rs) == SelectSeq(rs, HasFinalPrice)

\* the first priced result is taken, whatever its price
MinByFinalPriceFirstValid(vs) == vs[1]

\* the last of the cheapest is taken
MinByFinalPriceLast(vs) ==
    vs[CHOOSE i \in DOMAIN vs :
          /\ \A j \in DOMAIN vs : vs[i].final_price[1] <= vs[j].final_price[1]
          /\ \A j \in (i + 1)..Len(vs) : vs[j].final_price[1] > vs[i].final_price[1]]

\* min(valid_results, key=lambda x: x.final_price): the first of the cheapest
MinByFinalPrice(vs) ==
    vs[CHOOSE i \in DOMAIN vs :
          /\ \A j \in DOMAIN vs : vs[i].final_price[1] <= vs[j].final_price[1]
          /\ \A j \in 1..(i - 1) : vs[j].final_price[1] > vs[i].final_price[1]]

\* best_deal = None; if all_results: ... if valid_results: best_deal = min(...)
BestDeal(rs) ==
    IF Len(rs) = 0 \/ Len(ValidResults(rs)) = 0
       THEN Nothing
       ELSE <<MinByFinalPrice(ValidResults(rs))>>

\* the discounts are computed on the collected results and the best deal is chosen;
\* the reports hold the same ItemResult objects, so they see the discounts too
ComputeBest ==
    /\ phase = "gathered"
    /\ all_results' = Discounted(all_results)
    /\ report' = [h \in Handlers |-> [report[h] EXCEPT !.results = Discounted(@)]]
    /\ best_deal' = BestDeal(Discounted(all_results))
    /\ phase' = "selected"
    /\ UNCHANGED <<hpc, pending, ret, ended, finished, calls, reports, commitVars, run_report, mainVars, cardVars, retryVars>>

\* str.lower() on the platform names the program holds
Lower(s) ==
    CASE s = "Swiggy" -> "swiggy"
      [] s = "Zomato" -> "zomato"
      [] s = "SwiggyHandler" -> "swiggyhandler"
      [] s = "ZomatoHandler" -> "zomatohandler"
      [] OTHER -> s

\* sub in s, for the lower-case names
Contains(s, sub) ==
    \/ s = sub
    \/ <<s, sub>> \in {<<"swiggyhandler", "swiggy">>, <<"zomatohandler", "zomato">>}

\* the mapping ignores the platform and always commits on the first handler
HandlerForPlatformFirst(platform) == 1

\* the if/elif that maps best_deal.platform to swiggy_handler or zomato_handler; 0 is None
HandlerForPlatform(platform) ==
    IF Contains(Lower(platform), "swiggy") THEN 1
    ELSE IF Contains(Lower(platform), "zomato") THEN 2
    ELSE 0

\* both handler classes define add_item_to_cart, verify_cart_contains, remove_item_from_cart
HandlerCapabilities == [add |-> TRUE, verify |-> TRUE, remove |-> TRUE]

\* if best_deal: ... if handler_for_platform: a consistency-first CAPManager commits
StartCommit ==
    /\ phase = "selected"
    /\ IF best_deal # Nothing /\ HandlerForPlatform(best_deal[1].platform) # 0
          THEN /\ EnterCommit(HandlerForPlatform(best_deal[1].platform),
                              CONSISTENCY_FIRST, RunMaxAttempts, HandlerCapabilities)
               /\ phase' = "commit"
          ELSE /\ phase' = "report"
               /\ UNCHANGED commitVars
    /\ finished' = <<>>
    /\ UNCHANGED <<hpc, pending, report, ret, ended, calls, gatherVars, best_deal,
                   run_report, mainVars, cardVars, retryVars>>

\* every report gets the error, whatever its platform
MarkedReportAll(r) ==
    [r EXCEPT !.errors = Append(@, "Consistent add-to-cart failed")]

\* if not added_ok: the reports whose platform contains best_deal.platform get the error
MarkedReport(r) ==
    IF r.platform # "" /\ Contains(Lower(r.platform), Lower(best_deal[1].platform))
       THEN [r EXCEPT !.errors = Append(@, "Consistent add-to-cart failed")]
       ELSE r

\* RunReport(...)
RunReport(rep) ==
    [platforms_processed |-> [i \in DOMAIN reports |-> rep[reports[i]].platform],
     total_options |-> Len(all_results),
     best_deal |-> best_deal,
     platform_reports |-> [i \in DOMAIN reports |-> rep[reports[i]]]]

\* the rest of run: a failed commit is marked on the report, the RunReport is built
FinishRun ==
    /\ \/ phase = "commit" /\ cpc = "done"
       \/ phase = "report"
    /\ LET rep == IF phase = "commit" /\ result = <<FALSE>>
                     THEN [h \in Handlers |-> MarkedReport(report[h])]
                     ELSE report
       IN /\ report' = rep
          /\ run_report' = <<RunReport(rep)>>
    /\ phase' = "done"
    /\ UNCHANGED <<hpc, pending, ret, ended, finished, calls, gatherVars, best_deal, commitVars, mainVars, cardVars, retryVars>>

\* the exit status depends on the commit too: 1 when a report holds the commit's error
ExitStatusCommitToo(r) ==
    IF /\ r.total_options > 0
       /\ \A i \in DOMAIN r.platform_reports :
              \A k \in DOMAIN r.platform_reports[i].errors :
                  r.platform_reports[i].errors[k] # "Consistent add-to-cart failed"
       THEN 0 ELSE 1

\* 0 if report.total_options > 0 else 1
ExitStatus(r) == IF r.total_options > 0 THEN 0 ELSE 1

\* main after run has returned: the report is printed and the process exits
Exit ==
    /\ phase = "done"
    /\ run_report # Nothing
    /\ exit_status' = <<ExitStatus(run_report[1])>>
    /\ phase' = "exited"
    /\ UNCHANGED <<searchVars, gatherVars, best_deal, commitVars, run_report,
                   raw_items, request, item,
                   cardVars, retryVars>>

\* ------------------------------------------------------------------ SearchRequest

\* a str is the sequence of its characters; " " stands for the whitespace characters
Chars == {" ", "a"}
IsSpace(c) == c = " "

\* the item names given to SearchRequest: strings of up to MaxNameLen characters
Names == UNION {[1..n -> Chars] : n \in 0..MaxNameLen}

\* the food_items argument: lists of up to MaxItems names
RawLists == UNION {[1..n -> Names] : n \in 0..MaxItems}

RECURSIVE lstrip(_)
lstrip(s) == IF s # <<>> /\ IsSpace(Head(s)) THEN lstrip(Tail(s)) ELSE s

RECURSIVE rstrip(_)
rstrip(s) ==
    IF s # <<>> /\ IsSpace(s[Len(s)]) THEN rstrip(SubSeq(s, 1, Len(s) - 1)) ELSE s

\* the name is kept as given
stripNothing(s) == s

\* str.strip()
strip(s) == rstrip(lstrip(s))

\* `if item.strip()`: the stripped name is not the empty string
Keeps(s) == strip(s) # <<>>

\* [item.strip() for item in self.food_items if item.strip()]
FoodItems(items) ==
    LET kept == SelectSeq(items, Keeps)
    IN [i \in DOMAIN kept |-> strip(kept[i])]

\* SearchRequest(food_items=raw_items): __post_init__ filters, then raises on an empty list
Construct ==
    /\ phase = "main"
    /\ request' = FoodItems(raw_items)
    /\ phase' = IF FoodItems(raw_items) = <<>> THEN "ValueError" ELSE "constructed"
    /\ UNCHANGED <<searchVars, gatherVars, best_deal, commitVars, run_report,
                   exit_status, raw_items, item,
                   cardVars, retryVars>>

\* main enters the agent and calls run, which builds the handlers and starts the search
BeginRun ==
    /\ phase = "constructed"
    /\ phase' = "search"
    /\ UNCHANGED <<searchVars, gatherVars, best_deal, commitVars, run_report, mainVars, cardVars, retryVars>>

\* ------------------------------------------------------------------ _process_card

\* the rating and the price read off a card: None when the element or the number is missing
Ratings == {<<r>> : r \in 0..MaxRating} \cup {Nothing}
CardPrices == {<<p>> : p \in 0..MaxCardPrice} \cup {Nothing}

\* the rating filter and the price filters, then the ItemResult; None when filtered out
process_card(c, q) ==
    IF Truthy(c.rating) /\ c.rating[1] < q.min_rating
       THEN Nothing
    ELSE IF Truthy(c.price) /\ Truthy(q.price_min) /\ c.price[1] < q.price_min[1]
       THEN Nothing
    ELSE IF Truthy(c.price) /\ Truthy(q.price_max) /\ c.price[1] > q.price_max[1]
       THEN Nothing
    ELSE <<[rating |-> c.rating, item_price |-> c.price, final_price |-> c.price]>>

\* item_result = await self._process_card(card, food_item)
ProcessCard ==
    /\ phase = "card"
    /\ card_result' = process_card(card, limits)
    /\ phase' = "processed"
    /\ UNCHANGED <<searchVars, gatherVars, best_deal, commitVars, run_report, mainVars,
                   card, limits, retryVars>>

\* ------------------------------------------------------------------ retry_async

\* except (PlaywrightTimeoutError, PlaywrightError, asyncio.TimeoutError)
RetryableErrors == {"PlaywrightTimeoutError", "PlaywrightError", "asyncio.TimeoutError"}

\* an exception of func the except clause does not name
OtherErrors == {"ValueError"}

\* the exception is one the except clause names
IsRetryable(e) == e \in RetryableErrors

RetryEntry(op, out, exp) ==
    [op |-> op, attempt |-> retry_attempt, out |-> out, exp |-> exp]

\* the wrapper sleeps after every failure, the last included
MoreAttemptsAlways == TRUE

\* if attempt < max_attempts - 1
MoreAttempts == retry_attempt < retry_max - 1

\* for attempt in range(max_attempts): the next attempt, or raise last_exception
\* (raise None is a TypeError)
RetryFor ==
    /\ phase = "retry"
    /\ rpc = "for"
    /\ IF retry_attempt + 1 < retry_max
          THEN /\ retry_attempt' = retry_attempt + 1
               /\ rpc' = "call"
               /\ retry_out' = retry_out
          ELSE /\ retry_attempt' = retry_attempt
               /\ rpc' = "raised"
               /\ retry_out' = <<[kind |-> "raise",
                                  value |-> IF last_exception = Nothing
                                               THEN "TypeError"
                                               ELSE last_exception[1]]>>
    /\ UNCHANGED <<searchVars, gatherVars, best_deal, commitVars, run_report, mainVars,
                   cardVars, phase, retry_max, last_exception, retry_trace>>

\* return await func(*args, **kwargs), and the except clause
RetryCall ==
    /\ phase = "retry"
    /\ rpc = "call"
    /\ \/ /\ retry_trace' = Append(retry_trace, RetryEntry("call", "return", 0))
          /\ rpc' = "returned"
          /\ retry_out' = <<[kind |-> "return", value |-> "result"]>>
          /\ last_exception' = last_exception
       \/ \E e \in RetryableErrors \cup OtherErrors :
             /\ retry_trace' = Append(retry_trace, RetryEntry("call", e, 0))
             /\ IF IsRetryable(e)
                   THEN /\ last_exception' = <<e>>
                        /\ rpc' = IF MoreAttempts THEN "sleep" ELSE "for"
                        /\ retry_out' = retry_out
                   ELSE /\ last_exception' = last_exception
                        /\ rpc' = "raised"
                        /\ retry_out' = <<[kind |-> "raise", value |-> e]>>
    /\ UNCHANGED <<searchVars, gatherVars, best_deal, commitVars, run_report, mainVars,
                   cardVars, phase, retry_max, retry_attempt>>

\* wait_time = backoff ** attempt; await asyncio.sleep(wait_time)
RetrySleep ==
    /\ phase = "retry"
    /\ rpc = "sleep"
    /\ retry_trace' = Append(retry_trace, RetryEntry("sleep", "", retry_attempt))
    /\ rpc' = "for"
    /\ UNCHANGED <<searchVars, gatherVars, best_deal, commitVars, run_report, mainVars,
                   cardVars, phase, retry_max, retry_attempt, last_exception, retry_out>>

\* ------------------------------------------------------------------ initial state

InitSearch ==
    /\ hpc = [h \in Handlers |-> "start"]
    /\ pending = [h \in Handlers |-> None]
    /\ report = [h \in Handlers |-> NewReport(h)]
    /\ ret = [h \in Handlers |-> <<>>]
    /\ ended = [h \in Handlers |-> [how |-> "", exc |-> Nothing]]
    /\ calls = [h \in Handlers |-> [initialize |-> 0, search |-> 0]]
    /\ finished = <<>>
    /\ all_results = <<>>
    /\ reports = <<>>
    /\ best_deal = Nothing
    /\ run_report = Nothing

InitCommitIdle ==
    /\ cpc = "idle"
    /\ mode = AVAILABILITY_FIRST
    /\ max_attempts = 0
    /\ caps = [add |-> TRUE, verify |-> TRUE, remove |-> TRUE]
    /\ target = 0
    /\ attempt = 0
    /\ last_exc = Nothing
    /\ idempotency_token = Nothing
    /\ result = Nothing
    /\ trace = <<>>
    /\ uuids = 0
    /\ callTokens = <<>>

\* no card is being processed
InitCardIdle ==
    /\ card = [rating |-> Nothing, price |-> Nothing]
    /\ limits = [min_rating |-> 0, price_min |-> Nothing, price_max |-> Nothing]
    /\ card_result = Nothing

\* no retry_async wrapper is running
InitRetryIdle ==
    /\ rpc = "idle"
    /\ retry_max = 0
    /\ retry_attempt = 0
    /\ last_exception = Nothing
    /\ retry_out = Nothing
    /\ retry_trace = <<>>

\* a request with one item; no ItemResult is under calculation; main has not exited
InitMain ==
    /\ exit_status = Nothing
    /\ raw_items = <<<<"a">>>>
    /\ request = <<<<"a">>>>
    /\ item = ItemResult(1, Nothing)

\* run: the handlers are built, cap_mgr is availability-first, the search starts
Init ==
    /\ phase = "search"
    /\ InitSearch
    /\ InitCommitIdle
    /\ InitCardIdle
    /\ InitRetryIdle
    /\ InitMain

SearchStep ==
    \E h \in Handlers :
        \/ InitializeCall(h)
        \/ InitializeReturn(h)
        \/ InitializeRaise(h)
        \/ SearchReturn(h)
        \/ SearchRaise(h)
        \/ SearchTimeout(h)

SearchNext == SearchStep \/ Gather

SearchSpec == Init /\ [][SearchNext]_vars

\* the coordinator on its own: any handler, mode and max_attempts
InitCommit ==
    /\ phase = "commit"
    /\ InitSearch
    /\ InitCommitIdle
    /\ InitCardIdle
    /\ InitRetryIdle
    /\ InitMain

CommitNext == CommitCall \/ CommitStep

CommitSpec == InitCommit /\ [][CommitNext]_vars

\* main before the request exists: any list of names
InitRequest ==
    /\ phase = "main"
    /\ InitSearch
    /\ InitCommitIdle
    /\ InitCardIdle
    /\ InitRetryIdle
    /\ exit_status = Nothing
    /\ raw_items \in RawLists
    /\ request = <<>>
    /\ item = ItemResult(1, Nothing)

RequestNext ==
    \/ Construct
    \/ BeginRun
    \/ \E h \in Handlers : InitializeCall(h)

RequestSpec == InitRequest /\ [][RequestNext]_vars

\* the prices an ItemResult may hold when its discount is calculated
DiscPrices == {<<p>> : p \in 0..MaxDiscPrice} \cup {Nothing}

\* an ItemResult on its own: any prices, discount_percentage None or the handlers' 0
InitDiscount ==
    /\ phase = "item"
    /\ InitSearch
    /\ InitCommitIdle
    /\ InitCardIdle
    /\ InitRetryIdle
    /\ exit_status = Nothing
    /\ raw_items = <<<<"a">>>>
    /\ request = <<<<"a">>>>
    /\ item \in [platform : {PlatformValue(1)},
                 item_price : DiscPrices,
                 final_price : DiscPrices,
                 discount_percentage : {Nothing, <<0>>}]

\* result.calculate_discount()
CalculateDiscount ==
    /\ phase = "item"
    /\ item' = calculate_discount(item)
    /\ phase' = "calculated"
    /\ UNCHANGED <<searchVars, gatherVars, best_deal, commitVars, run_report,
                   exit_status, raw_items, request,
                   cardVars, retryVars>>

DiscountSpec == InitDiscount /\ [][CalculateDiscount]_vars

\* one card on its own: any rating and price, any bounds in the request
InitCard ==
    /\ phase = "card"
    /\ InitSearch
    /\ InitCommitIdle
    /\ InitRetryIdle
    /\ InitMain
    /\ card \in [rating : Ratings, price : CardPrices]
    /\ limits \in [min_rating : 0..MaxRating, price_min : CardPrices, price_max : CardPrices]
    /\ card_result = Nothing

CardSpec == InitCard /\ [][ProcessCard]_vars

\* a call of a function decorated with retry_async(max_attempts)
InitRetry ==
    /\ phase = "retry"
    /\ InitSearch
    /\ InitCommitIdle
    /\ InitCardIdle
    /\ InitMain
    /\ rpc = "for"
    /\ retry_max \in 0..MaxRetryArg
    /\ retry_attempt = -1
    /\ last_exception = Nothing
    /\ retry_out = Nothing
    /\ retry_trace = <<>>

RetryNext == RetryFor \/ RetryCall \/ RetrySleep

RetrySpec == InitRetry /\ [][RetryNext]_vars

\* run: search, gather, select, commit, report
Next ==
    \/ SearchStep
    \/ Gather
    \/ ComputeBest
    \/ StartCommit
    \/ CommitStep
    \/ FinishRun
    \/ Exit

Spec == Init /\ [][Next]_vars

\* the event loop runs every task that can run, and the timer of wait_for fires
FairSearchSpec ==
    /\ SearchSpec
    /\ \A h \in Handlers :
          /\ WF_vars(InitializeCall(h))
          /\ WF_vars(InitializeReturn(h))
          /\ WF_vars(InitializeRaise(h))
          /\ WF_vars(SearchReturn(h) \/ SearchRaise(h) \/ SearchTimeout(h))
    /\ WF_vars(Gather)

\* a commit call that was made keeps running; making a call is the caller's choice
FairCommitSpec == CommitSpec /\ WF_vars(CommitStep)

\* ============================================================== properties

\* the offers the handlers that completed their search put in their reports, in
\* handler order
CompletedResults ==
    Concat([h \in Handlers |->
               IF ended[h].how = "search returned" THEN report[h].results ELSE <<>>],
           NumHandlers)

LastError(h) == report[h].errors[Len(report[h].errors)]

\* C1: a handler whose search did not complete within the timeout ends with
\* available = false, a timeout error appended last and no offers, neither in its
\* report nor returned; and the call returns exactly the offers of the handlers
\* whose search completed.
C1_TimeoutIsolation ==
    /\ \A b \in Handlers :
          ended[b].how = "search timed out" =>
              /\ hpc[b] = "done"
              /\ report[b].available = FALSE
              /\ Len(report[b].errors) >= 1
              /\ LastError(b) = "Timeout: "
              /\ report[b].results = <<>>
              /\ report[b].items_found = 0
              /\ ret[b] = <<>>
    /\ phase = "gathered" => all_results = CompletedResults

\* C1's case: A completed with 2 offers, B timed out, the call has returned
C1_Witness ==
    /\ phase = "gathered"
    /\ \E a, b \in Handlers :
          /\ ended[a].how = "search returned"
          /\ Len(ret[a]) = 2
          /\ ended[b].how = "search timed out"

\* C2: parallel_search_handlers eventually returns, whatever the adapters do.
C2_EventuallyReturns == <>(phase = "gathered")

\* C3: a handler that raised from initialize or from search ends with
\* available = false and an error entry carrying the failure's message (the message
\* itself, after "Timeout: " when the failure is an asyncio.TimeoutError), and it
\* contributes no offers; once every task has ended the call can return, and it
\* returns the offers of every handler whose search completed.
C3_FailureIsolation ==
    /\ \A h \in Handlers :
          ended[h].how \in {"initialize raised", "search raised"} =>
              /\ hpc[h] = "done"
              /\ report[h].available = FALSE
              /\ Len(report[h].errors) >= 1
              /\ LastError(h) = IF ended[h].exc[1].type = "TimeoutError"
                                   THEN "Timeout: " \o ended[h].exc[1].msg
                                   ELSE ended[h].exc[1].msg
              /\ report[h].results = <<>>
              /\ ret[h] = <<>>
    /\ (phase = "search" /\ \A h \in Handlers : ended[h].how # "") => ENABLED Gather
    /\ phase = "gathered" => all_results = CompletedResults

\* C3's case: one handler raised, another returned offers, the call has returned
C3_Witness ==
    /\ phase = "gathered"
    /\ \E a, b \in Handlers :
          /\ ended[a].how = "search returned"
          /\ Len(ret[a]) > 0
          /\ ended[b].how \in {"initialize raised", "search raised"}
          /\ ended[b].exc[1].type = "Exception"

\* C10: two handlers on the same page never both have an operation on it in flight.
C10_SessionExclusive ==
    \A h1, h2 \in Handlers :
        (h1 # h2 /\ PageOf(h1) = PageOf(h2)) => ~(SessionBusy(h1) /\ SessionBusy(h2))

\* ---- the coordinator's history
IsApply(e) == e.op = "add_item_to_cart"
IsVerify(e) == e.op \in {"verify_cart_contains", "_fallback_verify"}
IsCompensate(e) == e.op \in {"remove_item_from_cart", "_fallback_remove"}
Applies == {i \in DOMAIN trace : IsApply(trace[i])}
Verifies == {i \in DOMAIN trace : IsVerify(trace[i])}
Compensations == {i \in DOMAIN trace : IsCompensate(trace[i])}
Returned == cpc = "done"
Max0(n) == IF n < 0 THEN 0 ELSE n

\* C4: an apply that returned, in an attempt that did not end in a successful
\* verification, is followed by a compensation in that attempt, before the next
\* attempt and before the coordinator returns.
C4_CompensationGuarantee ==
    \A i \in Applies :
        (trace[i].out = "return" /\ (attempt > trace[i].attempt \/ Returned)) =>
            \E j \in (i + 1)..Len(trace) :
                /\ trace[j].attempt = trace[i].attempt
                /\ \/ IsVerify(trace[j]) /\ trace[j].out = "True"
                   \/ IsCompensate(trace[j])

\* the adapter of C5: apply and compensate never raise, verify always returns false
AlwaysFalseVerifier ==
    /\ caps.add
    /\ \A i \in Applies \cup Compensations : trace[i].out = "return"
    /\ \A i \in Verifies : trace[i].out = "False"

C6_TokenStability ==
    /\ \A i \in Applies : trace[i].arg = idempotency_token
    /\ callTokens # <<>> => idempotency_token = callTokens[Len(callTokens)]
    /\ \A i, j \in DOMAIN callTokens : i # j => callTokens[i] # callTokens[j]

\* C6's case: a second call that has applied on its first attempt and on a retry
C6_Witness ==
    /\ Len(callTokens) = 2
    /\ \E i, j \in Applies : trace[i].attempt = 1 /\ trace[j].attempt = 2

\* C7: the coordinator returns True exactly when a verification returned true, and
\* that verification is the last thing it does.
C7_SuccessTerminal ==
    /\ result = <<TRUE>> <=> \E i \in Verifies : trace[i].out = "True"
    /\ result = <<TRUE>> => Returned
    /\ \A i \in Verifies : trace[i].out = "True" => i = Len(trace)
    /\ \A i \in DOMAIN trace : trace[i].out = "True" => IsVerify(trace[i])

\* C7's case: success on a retry, after a failed first attempt
C7_Witness ==
    /\ Returned
    /\ result = <<TRUE>>
    /\ attempt = 2
    /\ \E i \in Verifies : trace[i].out = "False"

\* C8: in availability-first mode a verification that returned false is followed by
\* one compensation and by no further apply, and the coordinator returns False.
C8_AvailabilityFirstNoRetry ==
    mode = AVAILABILITY_FIRST =>
        \A i \in Verifies :
            trace[i].out = "False" =>
                /\ \A j \in Applies : j < i
                /\ Cardinality({j \in Compensations : j > i}) <= 1
                /\ Returned => /\ result = <<FALSE>>
                               /\ Cardinality({j \in Compensations : j > i}) = 1

\* what holds at each step of C9: at most max_attempts applies, an outcome when the
\* call has returned, and after an apply that raised the next attempt is made
\* unless max_attempts attempts have been used
BoundedSoFar ==
    /\ Cardinality(Applies) <= Max0(max_attempts)
    /\ attempt <= Max0(max_attempts)
    /\ \A i \in Applies : trace[i].attempt \in 1..max_attempts
    /\ \A i, j \in Applies : trace[i].attempt = trace[j].attempt => i = j
    /\ Returned => result \in {<<TRUE>>, <<FALSE>>}
    /\ (Returned /\ max_attempts <= 0) => (trace = <<>> /\ result = <<FALSE>>)
    /\ \A i \in Applies :
          (Returned /\ trace[i].out = "raise" /\ trace[i].attempt < max_attempts) =>
              \E j \in Applies : trace[j].attempt = trace[i].attempt + 1

\* C9: a commit call, whose adapter calls each return or raise, applies at most
\* max_attempts times, retries after an apply that raised while attempts remain,
\* and returns.
C9_BoundedRetries == []BoundedSoFar /\ [](cpc = "while" => <>Returned)

\* C9's case: every attempt's apply raised and the call returned False
C9_Witness ==
    /\ Returned
    /\ result = <<FALSE>>
    /\ max_attempts = 3
    /\ Cardinality(Applies) = 3
    /\ \A i \in Applies : trace[i].out = "raise"

\* C11: while the commit is in flight no search task is running or on the page:
\* every run_handler task has ended before the commit starts.
C11_CommitAfterSearch ==
    (phase = "commit" \/ cpc # "idle") =>
        \A h \in Handlers :
            /\ hpc[h] = "done"
            /\ pending[h] = None
            /\ ended[h].how # ""
            /\ ~SessionBusy(h)

\* C11's case: a commit in the middle of its cycle, after a search that timed out
C11_Witness ==
    /\ phase = "commit"
    /\ cpc = "rollback"
    /\ \E h \in Handlers : ended[h].how = "search timed out"

\* the commit of run has been entered (add_to_cart_consistent was called)
CommitStarted == callTokens # <<>>

\* C12: apply, verify and compensate are called only inside the one commit call of a run,
\* on the handler whose platform is the best deal's; the commit is started exactly when
\* a best deal exists, under CONSISTENCY_FIRST, and the search ran under AVAILABILITY_FIRST.
C12_SingleCommitPath ==
    /\ [](/\ Len(callTokens) <= 1
          /\ phase \in {"search", "gathered", "selected"} =>
                 /\ mode = AVAILABILITY_FIRST
                 /\ ~CommitStarted
                 /\ trace = <<>>
          /\ CommitStarted =>
                 /\ mode = CONSISTENCY_FIRST
                 /\ best_deal # Nothing
                 /\ PlatformValue(target) = best_deal[1].platform
                 /\ \E i \in DOMAIN report[target].results :
                        report[target].results[i] = best_deal[1]
          /\ phase \in {"commit", "report", "done", "exited"} =>
                 (CommitStarted <=> best_deal # Nothing))
    /\ [][trace' # trace =>
             /\ phase = "commit"
             /\ cpc \in {"add", "verify", "rollback", "sleep"}
             /\ target' = target
             /\ Len(trace') = Len(trace) + 1]_vars

\* C12's case: a finished run whose best deal was on the second platform and was committed
C12_Witness ==
    /\ phase = "done"
    /\ best_deal # Nothing
    /\ best_deal[1].platform = PlatformValue(2)
    /\ Len(all_results) > 1
    /\ \E i \in DOMAIN trace : IsCompensate(trace[i])

RECURSIVE SumOfResults(_, _)
\* sum(len(pr.results) for pr in prs[1..n])
SumOfResults(prs, n) ==
    IF n = 0 THEN 0 ELSE SumOfResults(prs, n - 1) + Len(prs[n].results)

\* C13: the returned RunReport's total_options is the sum, over its platform reports,
\* of the number of results on each report.
C13_TotalOptionsIsSum ==
    run_report # Nothing =>
        /\ Len(run_report[1].platform_reports) = NumHandlers
        /\ run_report[1].total_options =
               SumOfResults(run_report[1].platform_reports,
                            Len(run_report[1].platform_reports))

\* C13's case: a finished run in which one handler found offers and another one failed
C13_Witness ==
    /\ run_report # Nothing
    /\ run_report[1].total_options > 0
    /\ \E h \in Handlers : ended[h].how \in {"search timed out", "search raised"}
    /\ \E h \in Handlers : Len(report[h].results) > 0

\* the best deal has been chosen from all_results
Selected == phase \in {"selected", "commit", "report", "done", "exited"}

\* the positions of all_results whose final price is known
Known == {i \in DOMAIN all_results : all_results[i].final_price # Nothing}

\* C14: when some collected offer has a known final price, best_deal is one of the
\* collected offers and no collected offer has a lower known final price.
C14_BestIsMinimum ==
    (Selected /\ Known # {}) =>
        /\ best_deal # Nothing
        /\ best_deal[1].final_price # Nothing
        /\ \E i \in DOMAIN all_results : all_results[i] = best_deal[1]
        /\ \A j \in Known :
               best_deal[1].final_price[1] <= all_results[j].final_price[1]
        /\ run_report # Nothing => run_report[1].best_deal = best_deal

\* C14's case: several priced offers, the cheapest not the first, in a returned report
C14_Witness ==
    /\ run_report # Nothing
    /\ 1 \in Known
    /\ \E j \in Known : all_results[j].final_price[1] < all_results[1].final_price[1]
    /\ \E i \in DOMAIN all_results : i \notin Known

\* C15: best_deal is none exactly when no offer was collected or none of them has a
\* known final price, and then add_to_cart_consistent is never called.
C15_NoneIffNoPricedOffer ==
    Selected =>
        /\ best_deal = Nothing <=> (Len(all_results) = 0 \/ Known = {})
        /\ best_deal = Nothing =>
               /\ ~CommitStarted
               /\ trace = <<>>
               /\ cpc = "idle"
               /\ phase # "commit"

\* C15's case: a finished run that collected offers, none with a known final price
C15_Witness ==
    /\ phase = "done"
    /\ Len(all_results) > 1
    /\ Known = {}
    /\ best_deal = Nothing

\* the first position holding the lowest known final price
FirstCheapest ==
    CHOOSE i \in Known :
        \A j \in Known :
            \/ all_results[j].final_price[1] > all_results[i].final_price[1]
            \/ all_results[j].final_price[1] = all_results[i].final_price[1] /\ i <= j

\* C16: among offers that share the lowest known final price, the one that comes first
\* in all_results is the best deal.
C16_FirstOfTies ==
    (Selected /\ Known # {}) =>
        /\ best_deal # Nothing
        /\ best_deal[1] = all_results[FirstCheapest]

\* C16's case: the lowest final price is shared by an offer of each platform
C16_Witness ==
    /\ phase = "done"
    /\ Known # {}
    /\ all_results[FirstCheapest].platform = PlatformValue(1)
    /\ \E j \in Known :
           /\ all_results[j].platform = PlatformValue(2)
           /\ all_results[j].final_price = all_results[FirstCheapest].final_price
    /\ \E j \in Known : all_results[j].final_price[1] > all_results[FirstCheapest].final_price[1]

\* the step of run that follows a commit that returned False
CommitFailedStep == phase = "commit" /\ result = <<FALSE>> /\ phase' = "done"

\* C17: after a commit that returned False, run returns a report with the offers, the
\* count and the best deal it had before the commit; the report of the best deal's
\* platform gains one error entry and the other reports' errors are as they were.
C17_CommitFailureRecovered ==
    /\ [][CommitFailedStep =>
             /\ run_report' # Nothing
             /\ run_report'[1].total_options = Len(all_results)
             /\ run_report'[1].best_deal = best_deal
             /\ all_results' = all_results
             /\ best_deal' = best_deal
             /\ \A h \in Handlers : report'[h].results = report[h].results
             /\ report'[target].errors =
                    Append(report[target].errors, "Consistent add-to-cart failed")
             /\ run_report'[1].platform_reports[target] = report'[target]
             /\ \A h \in Handlers \ {target} : report'[h].errors = report[h].errors]_vars
    /\ [][(phase = "commit" /\ phase' = "commit") =>
             /\ all_results' = all_results
             /\ best_deal' = best_deal
             /\ \A h \in Handlers :
                    /\ report'[h].results = report[h].results
                    /\ report'[h].errors = report[h].errors]_vars
    /\ [](phase = "commit" /\ cpc = "done" => ENABLED FinishRun)

\* C17's case: a returned report after a failed commit on the second platform, the
\* first platform's report holding offers and an error of its own
C17_Witness ==
    /\ phase = "done"
    /\ result = <<FALSE>>
    /\ target = 2
    /\ Len(report[1].results) > 0
    /\ Len(report[2].errors) = 1
    /\ \E i \in DOMAIN trace : trace[i].out = "raise"
    /\ \E i \in DOMAIN trace : IsCompensate(trace[i])

\* C18: the process exits with status 0 exactly when the run collected at least one
\* offer, whether the commit succeeded, failed or was never attempted.
C18_ExitStatusReflectsOffers ==
    /\ exit_status # Nothing <=> phase = "exited"
    /\ exit_status # Nothing =>
           /\ exit_status \in {<<0>>, <<1>>}
           /\ exit_status = <<0>> <=> Len(all_results) > 0
           /\ exit_status = <<0>> <=>
                  \E h \in Handlers : Len(report[h].results) > 0

\* C18's case: the process has exited with 0 after a commit that failed
C18_Witness ==
    /\ phase = "exited"
    /\ exit_status = <<0>>
    /\ result = <<FALSE>>
    /\ \E h \in Handlers : Len(report[h].errors) > 0

\* the name holds no character other than whitespace
Blank(s) == \A i \in DOMAIN s : s[i] = " "

\* the positions of raw_items that hold a non-blank name
NonBlank == {i \in DOMAIN raw_items : ~Blank(raw_items[i])}

\* the position in raw_items of the k-th non-blank name
NthNonBlank(k) ==
    CHOOSE i \in NonBlank : Cardinality({j \in NonBlank : j <= i}) = k

\* t is s without its leading and trailing whitespace
IsStripped(t, s) ==
    \E i, j \in DOMAIN s :
        /\ t = SubSeq(s, i, j)
        /\ s[i] # " " /\ s[j] # " "
        /\ \A m \in DOMAIN s : (m < i \/ m > j) => s[m] = " "

\* C19: a list with no non-blank name makes SearchRequest raise, before any handler
\* is initialized; otherwise food_items holds the non-blank names, stripped, in order.
C19_RequestValidation ==
    /\ phase = "ValueError" <=> (phase # "main" /\ NonBlank = {})
    /\ phase = "ValueError" =>
           /\ \A h \in Handlers : hpc[h] = "start" /\ pending[h] = None
           /\ ~ENABLED RequestNext
    /\ phase \notin {"main", "ValueError"} =>
           /\ Len(request) = Cardinality(NonBlank)
           /\ Len(request) >= 1
           /\ \A k \in DOMAIN request :
                  IsStripped(request[k], raw_items[NthNonBlank(k)])

\* C19's case: a request built from a list with a blank name between two padded ones,
\* and a handler already initializing
C19_Witness ==
    /\ phase = "search"
    /\ \E h \in Handlers : hpc[h] = "initialize"
    /\ Len(raw_items) > Len(request)
    /\ Len(request) >= 1
    /\ \E k \in DOMAIN request : request[k] # raw_items[NthNonBlank(k)]

\* d hundredths of a percent is (ip - fp) / ip * 100 rounded to 2 decimals
IsRoundedDiscount(d, ip, fp) ==
    LET diff == d * ip - (ip - fp) * 10000
    IN 2 * (IF diff < 0 THEN 0 - diff ELSE diff) <= ip

\* C20: calculate_discount sets discount_percentage to the rounded percentage whenever
\* both prices are known (not None) and item_price > 0, a final price of 0 giving 100.0,
\* and leaves discount_percentage as it was otherwise.
C20_DiscountInvariant ==
    [][(phase = "item" /\ phase' = "calculated") =>
          IF /\ item.item_price # Nothing
             /\ item.final_price # Nothing
             /\ item.item_price[1] > 0
             THEN /\ item'.discount_percentage # Nothing
                  /\ IsRoundedDiscount(item'.discount_percentage[1],
                                       item.item_price[1], item.final_price[1])
             ELSE item'.discount_percentage = item.discount_percentage]_vars

\* C21: in one call of parallel_search_handlers every handler's initialize is called
\* once and its search_items at most once, never after its initialize raised.
C21_NoOrchestratorRetry ==
    \A h \in Handlers :
        /\ calls[h].initialize = (IF hpc[h] = "start" THEN 0 ELSE 1)
        /\ calls[h].search <= 1
        /\ calls[h].search = 1 <=>
               \/ hpc[h] = "search"
               \/ ended[h].how \in {"search returned", "search raised", "search timed out"}
        /\ ended[h].how = "initialize raised" => calls[h].search = 0
        /\ phase = "gathered" => calls[h].initialize = 1

\* C21's case: the call has returned; one initialize raised, the other handler searched
C21_Witness ==
    /\ phase = "gathered"
    /\ \E h \in Handlers : ended[h].how = "initialize raised"
    /\ \E h \in Handlers : calls[h].search = 1 /\ ended[h].how = "search raised"

\* C22: parallel_search_handlers returns one report per handler, the i-th being the
\* i-th handler's, whatever the handlers' outcomes, and run's platforms_processed
\* names these same sources once each.
C22_OneReportPerAdapter ==
    /\ phase # "search" =>
           /\ Len(reports) = NumHandlers
           /\ \A i \in DOMAIN reports :
                  /\ reports[i] = i
                  /\ report[reports[i]].platform = ClassName(i)
    /\ run_report # Nothing =>
           /\ Len(run_report[1].platform_reports) = NumHandlers
           /\ Len(run_report[1].platforms_processed) = NumHandlers
           /\ \A i \in 1..NumHandlers :
                  /\ run_report[1].platform_reports[i] = report[i]
                  /\ run_report[1].platforms_processed[i] = ClassName(i)
           /\ \A i, j \in 1..NumHandlers :
                  i # j => run_report[1].platforms_processed[i] #
                               run_report[1].platforms_processed[j]

\* C22's case: a returned RunReport after one handler timed out and the other raised
C22_Witness ==
    /\ run_report # Nothing
    /\ ended[1].how = "search timed out"
    /\ ended[2].how = "initialize raised"

\* C23: an offer _process_card returns respects the request's bounds: a known rating
\* is >= min_rating, a known price is >= price_min and <= price_max when these are
\* set (not None), the value 0 included.
C23_ResultsWithinBounds ==
    card_result # Nothing =>
        /\ card_result[1].rating # Nothing =>
               card_result[1].rating[1] >= limits.min_rating
        /\ (card_result[1].item_price # Nothing /\ limits.price_min # Nothing) =>
               card_result[1].item_price[1] >= limits.price_min[1]
        /\ (card_result[1].item_price # Nothing /\ limits.price_max # Nothing) =>
               card_result[1].item_price[1] <= limits.price_max[1]

\* C24: a compensation is called right after every verification that returned false,
\* in the same attempt and before any sleep, retry or return, and nowhere else: not
\* in an attempt whose apply raised or whose verification returned true or raised.
C24_CompensationPairedWithVerify ==
    /\ \A i \in Verifies :
           trace[i].out = "False" =>
               IF i = Len(trace)
                  THEN cpc = "rollback" /\ attempt = trace[i].attempt
                  ELSE /\ IsCompensate(trace[i + 1])
                       /\ trace[i + 1].attempt = trace[i].attempt
    /\ \A j \in Compensations :
           /\ j > 1
           /\ IsVerify(trace[j - 1])
           /\ trace[j - 1].out = "False"
           /\ trace[j - 1].attempt = trace[j].attempt
           /\ \A i \in Applies :
                  trace[i].attempt = trace[j].attempt => trace[i].out = "return"
           /\ \A i \in Verifies :
                  trace[i].attempt = trace[j].attempt => trace[i].out = "False"
    /\ \A a \in 1..MaxAttemptsArg :
           Cardinality({j \in Compensations : trace[j].attempt = a}) <= 1
    /\ cpc \in {"sleep", "while", "done"} =>
           Cardinality(Compensations) =
               Cardinality({i \in Verifies : trace[i].out = "False"})

\* C24's case: a returned call that had an apply raise, a verification raise, a
\* verification refuse with its compensation, and a verification succeed
C24_Witness ==
    /\ Returned
    /\ result = <<TRUE>>
    /\ \E i \in Applies : trace[i].out = "raise"
    /\ \E i \in Verifies : trace[i].out = "False"
    /\ Cardinality(Compensations) = 1

\* the backoff sleeps of the call
Sleeps == {i \in DOMAIN trace : trace[i].op = "sleep"}

\* C25: the coordinator sleeps backoff^(k-1) after the k-th failed attempt only when
\* k < max_attempts, so a call sleeps at most max_attempts - 1 times and does not
\* sleep between its last failed attempt and its return.
C25_BackoffOnlyBetweenAttempts ==
    /\ \A i \in Sleeps :
           /\ trace[i].arg = <<trace[i].attempt - 1>>
           /\ trace[i].attempt < max_attempts
    /\ Cardinality(Sleeps) <= Max0(max_attempts - 1)
    /\ (Returned /\ trace # <<>>) => trace[Len(trace)].op # "sleep"

\* the adapter calls of the current call that raised
Raises == {i \in DOMAIN trace : trace[i].out = "raise"}

\* what holds at each step of C26: the call is inside its loop or has returned a
\* bool, and an adapter call that raised (or a missing add_item_to_cart) has become
\* the recorded failure of its attempt
CaughtSoFar ==
    /\ cpc \in {"idle", "while", "add", "verify", "rollback", "sleep", "done"}
    /\ Returned => result \in {<<TRUE>>, <<FALSE>>}
    /\ \A i \in Raises :
           /\ last_exc # Nothing
           /\ i = Len(trace) => (cpc = "sleep" /\ last_exc[1] \in CartExceptions)
           /\ i < Len(trace) => /\ trace[i + 1].op = "sleep"
                                /\ trace[i + 1].attempt = trace[i].attempt
    /\ (~caps.add /\ cpc # "idle") =>
           /\ Applies = {}
           /\ result # <<TRUE>>
           /\ cpc \in {"while", "add", "sleep", "done"}
           /\ (attempt >= 1 /\ cpc # "add") => last_exc = <<NotImplementedError>>

\* C26: add_to_cart_consistent never raises: whatever its adapter calls raise is
\* caught and counted as a failed attempt, and the call ends by returning a bool.
C26_NeverRaises ==
    /\ []CaughtSoFar
    /\ [](cpc \in {"while", "add", "verify", "rollback", "sleep"} => <>Returned)

\* C26's case: a returned call in which an apply, a verification and a compensation raised
C26_Witness ==
    /\ Returned
    /\ result = <<FALSE>>
    /\ \E i \in Raises : IsApply(trace[i])
    /\ \E i \in Raises : IsVerify(trace[i])
    /\ \E i \in Raises : IsCompensate(trace[i])

\* the invocations of func, those that failed with a retryable error, and the sleeps
RetryCalls == {i \in DOMAIN retry_trace : retry_trace[i].op = "call"}
RetryFailures == {i \in RetryCalls : retry_trace[i].out \in RetryableErrors}
RetrySleeps == {i \in DOMAIN retry_trace : retry_trace[i].op = "sleep"}

\* C27: with max_attempts >= 1 the wrapper calls func at most max_attempts times; a
\* call that returns ends the wrapper with that result; after the i-th retryable
\* failure, i < max_attempts, it sleeps backoff^(i-1) and calls again; after the
\* max_attempts-th it raises that exception without sleeping; any other exception
\* leaves the wrapper at once.
C27_RetryAsync ==
    retry_max >= 1 =>
        /\ Cardinality(RetryCalls) <= retry_max
        /\ \A i \in RetryCalls :
               /\ retry_trace[i].attempt + 1 = Cardinality({j \in RetryCalls : j <= i})
               /\ retry_trace[i].out = "return" =>
                      /\ i = Len(retry_trace)
                      /\ rpc = "returned"
                      /\ retry_out = <<[kind |-> "return", value |-> "result"]>>
               /\ retry_trace[i].out \in OtherErrors =>
                      /\ i = Len(retry_trace)
                      /\ rpc = "raised"
                      /\ retry_out = <<[kind |-> "raise", value |-> retry_trace[i].out]>>
        /\ \A i \in RetryFailures :
               IF retry_trace[i].attempt + 1 < retry_max
                  THEN IF i = Len(retry_trace)
                          THEN rpc = "sleep"
                          ELSE /\ retry_trace[i + 1].op = "sleep"
                               /\ retry_trace[i + 1].exp = retry_trace[i].attempt
                               /\ i + 1 = Len(retry_trace) => rpc \in {"for", "call"}
                               /\ i + 1 < Len(retry_trace) =>
                                      /\ retry_trace[i + 2].op = "call"
                                      /\ retry_trace[i + 2].attempt =
                                             retry_trace[i].attempt + 1
                  ELSE /\ i = Len(retry_trace)
                       /\ rpc \in {"for", "raised"}
                       /\ last_exception = <<retry_trace[i].out>>
                       /\ rpc = "raised" =>
                              retry_out = <<[kind |-> "raise",
                                             value |-> retry_trace[i].out]>>
        /\ Cardinality(RetrySleeps) <= retry_max - 1
        /\ rpc = "raised" => retry_out # Nothing /\ retry_out[1].kind = "raise"

\* C27's case: three retryable failures, two sleeps, the last exception raised
C27_Witness ==
    /\ retry_max = 3
    /\ rpc = "raised"
    /\ Cardinality(RetryFailures) = 3
    /\ Cardinality(RetrySleeps) = 2
    /\ retry_out = <<[kind |-> "raise", value |-> "asyncio.TimeoutError"]>>
    /\ retry_trace[1].out = "PlaywrightError"

\* the position in all_results of the i-th offer handler h returned
PositionOf(h, i) == Len(Concat(ret, h - 1)) + i

\* C28: all_results is the handlers' offers in handler order, each handler's in the
\* order it returned them, whichever task ended first; so the best deal, ties
\* included, is determined by what the handlers returned.
C28_DeterministicOrder ==
    phase # "search" =>
        /\ Len(all_results) = Len(Concat(ret, NumHandlers))
        /\ \A h \in Handlers :
               \A i \in DOMAIN ret[h] :
                   all_results[PositionOf(h, i)] =
                       IF phase = "gathered" THEN ret[h][i] ELSE calculate_discount(ret[h][i])
        /\ Selected => best_deal = BestDeal(Discounted(Concat(ret, NumHandlers)))

\* C28's case: the second handler's task ended first, both returned offers, and the
\* cheapest price is shared by an offer of each
C28_Witness ==
    /\ phase = "selected"
    /\ finished = <<2, 1>>
    /\ Len(ret[1]) > 1
    /\ Len(ret[2]) > 0
    /\ best_deal # Nothing
    /\ best_deal[1].platform = PlatformValue(1)
    /\ \E i \in DOMAIN ret[2] : ret[2][i].final_price = best_deal[1].final_price
    /\ ret[1][1].final_price # best_deal[1].final_price

\* the handler whose platform the best deal carries
Owner == CHOOSE h \in Handlers : PlatformValue(h) = best_deal[1].platform

\* C29: the best deal belongs to a source whose report is available and lists it; a
\* handler that timed out or raised owns no offer, so never the best deal, and the
\* commit is never called on it.
C29_BestFromAvailableSource ==
    /\ (Selected /\ best_deal # Nothing) =>
           /\ \E h \in Handlers : PlatformValue(h) = best_deal[1].platform
           /\ report[Owner].available
           /\ ended[Owner].how = "search returned"
           /\ \E i \in DOMAIN report[Owner].results :
                  report[Owner].results[i] = best_deal[1]
           /\ CommitStarted => target = Owner
           /\ run_report # Nothing =>
                  /\ run_report[1].best_deal = best_deal
                  /\ run_report[1].platform_reports[Owner].available
                  /\ \E i \in DOMAIN run_report[1].platform_reports[Owner].results :
                         run_report[1].platform_reports[Owner].results[i] = best_deal[1]
    /\ \A h \in Handlers :
           ended[h].how \in {"initialize raised", "search raised", "search timed out"} =>
               /\ ~report[h].available
               /\ ret[h] = <<>>
               /\ \A i \in DOMAIN all_results : all_results[i].platform # PlatformValue(h)
               /\ best_deal # Nothing => best_deal[1].platform # PlatformValue(h)
               /\ CommitStarted => target # h

\* C29's case: a committed best deal of the second platform after the first timed out
C29_Witness ==
    /\ run_report # Nothing
    /\ best_deal # Nothing
    /\ Owner = 2
    /\ ended[1].how = "search timed out"
    /\ result = <<TRUE>>

\* the source of the best deal, when the commit on it succeeded
Won(h) ==
    /\ best_deal # Nothing
    /\ PlatformValue(h) = best_deal[1].platform
    /\ result = <<TRUE>>

\* C30: in the returned RunReport every platform report has items_found equal to the
\* number of its results and successful_additions equal to items_found, plus one for
\* the source whose commit succeeded, also when the source timed out or failed
\* part-way through its search.
C30_CountersConsistent ==
    run_report # Nothing =>
        \A h \in Handlers :
            LET pr == run_report[1].platform_reports[h]
            IN /\ pr.items_found = Len(pr.results)
               /\ pr.successful_additions =
                      pr.items_found + (IF Won(h) THEN 1 ELSE 0)
====
